---------------------------- MODULE Spec2Model ----------------------------
(***************************************************************************)
(* Model of package i2c (src/i2c.go): a register channel over a byte       *)
(* transport.  The channel is the struct I2C {addr, bus, rc}; rc is the    *)
(* open device file.  Every exported method is one action; the methods     *)
(* themselves are operators that thread the transport's state through the  *)
(* calls they make, in the order the code makes them, and record each      *)
(* transport call they perform.                                            *)
(*                                                                         *)
(* Logging (logrus Tracef) has no effect on control flow and is left out.  *)
(***************************************************************************)
EXTENDS Integers, Sequences, FiniteSets

VARIABLES
    bus,    \* I2C.bus
    addr,   \* I2C.addr
    rc,     \* I2C.rc, the device file: "open" or "closed"
    mem,    \* the device behind rc: its register file
    ptr,    \* the device behind rc: the register selected by the last write
    last,   \* the last completed method call: arguments, transport calls, results
    caller, \* concurrent callers of one channel: where each is in its method
    lock,   \* the callers' mutex around the channel: its holder, 0 when free
    mode,   \* the callers' locking discipline: "none", "call" or "op"
    orphans \* device files opened by NewI2C that no channel holds and nobody closed

vars == <<bus, addr, rc, mem, ptr, last, caller, lock, mode, orphans>>

---------------------------------------------------------------------------
(* Bounds and sample sets *)

MaxDelay == 1       \* settle delays 0..MaxDelay
MaxLen == 2         \* buffer lengths of ReadBytes / ReadRegBytes: 0..MaxLen

DefaultReadDelay == 0

\* register addresses the callers use
Regs == {0, 16}
Delays == 0..MaxDelay
Byte == 0..255
Word == 0..65535
Int16 == -32768..32767

Buses == {0, 1}
Addrs == {64}

\* device files NewI2C may leave open without a channel, at most
MaxOrphans == 2

\* concurrent callers sharing one channel
NumCallers == 2
Callers == 1..NumCallers

\* values the callers of the state-machine specification write
SomeBytes == {200}
SomeWords == {51200}     \* 0xC800
SomeInts == {-14336}     \* int16(0xC800)

---------------------------------------------------------------------------
(* Go's fixed-width arithmetic *)

\* uint16(x): wrap to 16 bits
U16(x) == x % 65536

\* int16(x): wrap to 16 bits, two's complement
S16(x) == LET u == x % 65536 IN IF u >= 32768 THEN u - 65536 ELSE u

\* byte(x): wrap to 8 bits
U8(x) == x % 256

\* x & 0xFF, for x of either 16-bit type
AndFF(x) == x % 256

\* x & 0xFF00 for a uint16 x
AndFF00(x) == U16(x) - (U16(x) % 256)

\* x >> 8: logical for uint16 (x >= 0), arithmetic for int16 (floor)
Shr8(x) == x \div 256

\* x << 8 in uint16
Shl8U(x) == U16(x * 256)

\* x << 8 in int16
Shl8S(x) == S16(x * 256)

\* a * b in uint16 (the product is taken in two halves of b, each of which
\* stays within the model checker's integers)
MulU16(a, b) == U16(U16(U16(a) * (b \div 256)) * 256 + U16(a) * (b % 256))

Min(a, b) == IF a < b THEN a ELSE b

Zeros(n) == [i \in 1..n |-> 0]

---------------------------------------------------------------------------
(* The device behind the transport: a file of 16-bit registers with a      *)
(* register pointer.  The first byte of a write frame selects a register   *)
(* and the data bytes that follow replace that register's bytes, in frame  *)
(* order; a read delivers the selected register's bytes in the order they  *)
(* were stored (the device has nothing beyond them and sends zeros).       *)

DevWrite(s, buf) ==
    IF buf = <<>> THEN s
    ELSE LET p == buf[1]
             data == Tail(buf)
         IN [s EXCEPT !.ptr = p,
                      !.mem[p] = [i \in 1..2 |->
                                    IF i <= Len(data) THEN data[i] ELSE s.mem[p][i]]]

DevRead(s, k) == [i \in 1..k |-> IF i <= 2 THEN s.mem[s.ptr][i] ELSE 0]

---------------------------------------------------------------------------
(* The transport's outcomes, chosen by the environment for one method      *)
(* call: whether rc.Write succeeds (wok), whether rc.Read reports an error *)
(* (rerr), and how many bytes rc.Read delivers (k).  A read that reports   *)
(* success has delivered at least one byte of a non-empty buffer, possibly *)
(* fewer than asked for; a read that reports an error has not filled the   *)
(* buffer.                                                                 *)

Outcome(w, e, k) == [wok |-> w, rerr |-> e, k |-> k]

OkOutcome(n) == Outcome(TRUE, FALSE, n)

WriteOutcomes == {Outcome(TRUE, FALSE, 0), Outcome(FALSE, FALSE, 0)}

ReadOutcomes(n) ==
    { Outcome(TRUE, FALSE, k) : k \in (IF n = 0 THEN {0} ELSE 1..n) }
    \cup { Outcome(TRUE, TRUE, k) : k \in (IF n = 0 THEN {0} ELSE 0..(n - 1)) }

RegReadOutcomes(n) == ReadOutcomes(n) \cup {Outcome(FALSE, FALSE, 0)}

World == [rc |-> rc, mem |-> mem, ptr |-> ptr, calls |-> <<>>]

---------------------------------------------------------------------------
(* Raw transfer primitives *)

\* One call on the transport (or the sleep between two), as the method made it:
\* data is the frame written or the bytes delivered, n the length of the
\* buffer handed over (the delay, for a sleep), err the transport's answer.
Logged(s, kind, data, n, e) ==
    [s EXCEPT !.calls = Append(@, [kind |-> kind, data |-> data, n |-> n, err |-> e])]

\* func (v *I2C) write(buf []byte) (int, error) { return v.rc.Write(buf) }
write(s, buf, io) ==
    LET e == IF s.rc = "closed" THEN "ErrClosed"
             ELSE IF ~io.wok THEN "WriteErr" ELSE "nil"
        s1 == Logged(s, "write", buf, Len(buf), e)
    IN IF e # "nil" THEN [s |-> s1, n |-> 0, err |-> e]
       ELSE [s |-> DevWrite(s1, buf), n |-> Len(buf), err |-> "nil"]

WriteBytes(s, buf, io) == write(s, buf, io)

\* func (v *I2C) read(buf []byte) (int, error) { return v.rc.Read(buf) }
\* buf arrives zeroed (make) with length n; the transport fills its first k bytes.
read(s, n, io) ==
    LET k == IF s.rc = "closed" THEN 0 ELSE Min(io.k, n)
        e == IF s.rc = "closed" THEN "ErrClosed"
             ELSE IF io.rerr THEN "ReadErr" ELSE "nil"
        got == DevRead(s, k)
    IN [s |-> Logged(s, "read", got, n, e),
        buf |-> got \o Zeros(n - k),
        n |-> k,
        err |-> e]

ReadBytes(s, n, io) ==
    LET r == read(s, n, io)
    IN IF r.err # "nil" THEN [s |-> r.s, buf |-> r.buf, n |-> r.n, err |-> r.err]
       ELSE [s |-> r.s, buf |-> r.buf, n |-> r.n, err |-> "nil"]

\* time.Sleep(delay)
Sleep(s, delay) ==
    Logged(s, "sleep", <<>>, delay, "nil")

\* Mutant: Close returns without closing the file.
Close_LeavesOpen(s, cok) ==
    [s |-> Logged(s, "close", <<>>, 0, "nil"), err |-> "nil"]

\* func (v *I2C) Close() error { return v.rc.Close() }
\* Closing releases the file whatever close(2) answers; a closed file answers
\* ErrClosed.
Close(s, cok) ==
    LET e == IF s.rc = "closed" THEN "ErrClosed"
             ELSE IF cok THEN "nil" ELSE "CloseErr"
    IN [s |-> [Logged(s, "close", <<>>, 0, e) EXCEPT !.rc = "closed"], err |-> e]

---------------------------------------------------------------------------
(* Register read protocol *)

\* Mutant: the multi-byte register read passes on what ReadBytes returned
\* when the read fails.
ReadRegBytesWithDelay_KeepsCount(s, reg, n, delay, io) ==
    LET w == WriteBytes(s, <<reg>>, io)
    IN IF w.err # "nil" THEN [s |-> w.s, buf |-> <<>>, n |-> 0, err |-> w.err]
       ELSE LET r == ReadBytes(Sleep(w.s, delay), n, io)
            IN [s |-> r.s, buf |-> r.buf, n |-> r.n, err |-> r.err]

ReadRegBytesWithDelay(s, reg, n, delay, io) ==
    LET w == WriteBytes(s, <<reg>>, io)
    IN IF w.err # "nil" THEN [s |-> w.s, buf |-> <<>>, n |-> 0, err |-> w.err]
       ELSE LET r == ReadBytes(Sleep(w.s, delay), n, io)
            IN IF r.err # "nil" THEN [s |-> r.s, buf |-> <<>>, n |-> 0, err |-> r.err]
               ELSE [s |-> r.s, buf |-> r.buf, n |-> r.n, err |-> "nil"]

ReadRegBytes(s, reg, n, io) == ReadRegBytesWithDelay(s, reg, n, DefaultReadDelay, io)

\* Mutant: the byte read goes on to read after a failed register select.
ReadRegU8WithDelay_IgnoresSelectError(s, reg, delay, io) ==
    LET w == WriteBytes(s, <<reg>>, io)
        r == ReadBytes(Sleep(w.s, delay), 1, io)
    IN IF r.err # "nil" THEN [s |-> r.s, val |-> 0, err |-> r.err]
       ELSE [s |-> r.s, val |-> r.buf[1], err |-> w.err]

ReadRegU8WithDelay(s, reg, delay, io) ==
    LET w == WriteBytes(s, <<reg>>, io)
    IN IF w.err # "nil" THEN [s |-> w.s, val |-> 0, err |-> w.err]
       ELSE LET r == ReadBytes(Sleep(w.s, delay), 1, io)
            IN IF r.err # "nil" THEN [s |-> r.s, val |-> 0, err |-> r.err]
               ELSE [s |-> r.s, val |-> r.buf[1], err |-> "nil"]

ReadRegU8(s, reg, io) == ReadRegU8WithDelay(s, reg, DefaultReadDelay, io)

\* Mutant: the word read tries the transport read a second time when it fails.
ReadRegU16BEWithDelay_RetriesRead(s, reg, delay, io) ==
    LET w == WriteBytes(s, <<reg>>, io)
    IN IF w.err # "nil" THEN [s |-> w.s, val |-> 0, err |-> w.err]
       ELSE LET r1 == ReadBytes(Sleep(w.s, delay), 2, io)
                r == IF r1.err # "nil" THEN ReadBytes(r1.s, 2, io) ELSE r1
            IN IF r.err # "nil" THEN [s |-> r.s, val |-> 0, err |-> r.err]
               ELSE [s |-> r.s,
                     val |-> U16(Shl8U(U16(r.buf[1])) + U16(r.buf[2])),
                     err |-> "nil"]

\* w := uint16(buf[0])<<8 + uint16(buf[1])
ReadRegU16BEWithDelay(s, reg, delay, io) ==
    LET w == WriteBytes(s, <<reg>>, io)
    IN IF w.err # "nil" THEN [s |-> w.s, val |-> 0, err |-> w.err]
       ELSE LET r == ReadBytes(Sleep(w.s, delay), 2, io)
            IN IF r.err # "nil" THEN [s |-> r.s, val |-> 0, err |-> r.err]
               ELSE [s |-> r.s,
                     val |-> U16(Shl8U(U16(r.buf[1])) + U16(r.buf[2])),
                     err |-> "nil"]

ReadRegU16BE(s, reg, io) == ReadRegU16BEWithDelay(s, reg, DefaultReadDelay, io)

\* Mutant: the little-endian read fetches its two bytes in two transactions,
\* the second register first.
ReadRegU16LEWithDelay_TwoReads(s, reg, delay, io) ==
    LET hi == ReadRegU8WithDelay(s, reg, delay, io)
        lo == ReadRegU8WithDelay(hi.s, reg, delay, io)
    IN IF hi.err # "nil" THEN [s |-> hi.s, val |-> 0, err |-> hi.err]
       ELSE IF lo.err # "nil" THEN [s |-> lo.s, val |-> 0, err |-> lo.err]
       ELSE [s |-> lo.s, val |-> U16(Shl8U(lo.val) + hi.val), err |-> "nil"]

\* Mutant: the little-endian read forgets to exchange the bytes.
ReadRegU16LEWithDelay_NoSwap(s, reg, delay, io) ==
    ReadRegU16BEWithDelay(s, reg, delay, io)

\* w = (w&0xFF)<<8 + w>>8, in uint16
ReadRegU16LEWithDelay(s, reg, delay, io) ==
    LET r == ReadRegU16BEWithDelay(s, reg, delay, io)
    IN IF r.err # "nil" THEN [s |-> r.s, val |-> 0, err |-> r.err]
       ELSE [s |-> r.s,
             val |-> U16(Shl8U(AndFF(r.val)) + Shr8(r.val)),
             err |-> "nil"]

ReadRegU16LE(s, reg, io) == ReadRegU16LEWithDelay(s, reg, DefaultReadDelay, io)

\* Mutant: the signed read assembles the word as an unsigned one.
ReadRegS16BEWithDelay_Unsigned(s, reg, delay, io) ==
    ReadRegU16BEWithDelay(s, reg, delay, io)

\* w := int16(buf[0])<<8 + int16(buf[1])
ReadRegS16BEWithDelay(s, reg, delay, io) ==
    LET w == WriteBytes(s, <<reg>>, io)
    IN IF w.err # "nil" THEN [s |-> w.s, val |-> 0, err |-> w.err]
       ELSE LET r == ReadBytes(Sleep(w.s, delay), 2, io)
            IN IF r.err # "nil" THEN [s |-> r.s, val |-> 0, err |-> r.err]
               ELSE [s |-> r.s,
                     val |-> S16(Shl8S(S16(r.buf[1])) + S16(r.buf[2])),
                     err |-> "nil"]

ReadRegS16BE(s, reg, io) == ReadRegS16BEWithDelay(s, reg, DefaultReadDelay, io)

\* w = (w&0xFF)<<8 + w>>8, in int16: w>>8 is an arithmetic shift
ReadRegS16LEWithDelay(s, reg, delay, io) ==
    LET r == ReadRegS16BEWithDelay(s, reg, delay, io)
    IN IF r.err # "nil" THEN [s |-> r.s, val |-> 0, err |-> r.err]
       ELSE [s |-> r.s,
             val |-> S16(Shl8S(AndFF(r.val)) + Shr8(r.val)),
             err |-> "nil"]

ReadRegS16LE(s, reg, io) == ReadRegS16LEWithDelay(s, reg, DefaultReadDelay, io)

---------------------------------------------------------------------------
(* Register write protocol *)

\* Mutant: the byte write selects the register in a transaction of its own.
WriteRegU8_TwoWrites(s, reg, value, io) ==
    LET sel == WriteBytes(s, <<reg>>, io)
        w == WriteBytes(sel.s, <<value>>, io)
    IN IF sel.err # "nil" THEN [s |-> sel.s, err |-> sel.err]
       ELSE [s |-> w.s, err |-> w.err]

WriteRegU8(s, reg, value, io) ==
    LET w == WriteBytes(s, <<reg, value>>, io)
    IN [s |-> w.s, err |-> w.err]

\* Mutant: the big-endian word write sends the low byte first.
WriteRegU16BE_LowByteFirst(s, reg, value, io) ==
    LET buf == <<reg, U8(AndFF(value)), U8(Shr8(AndFF00(value)))>>
        w == WriteBytes(s, buf, io)
    IN [s |-> w.s, err |-> w.err]

\* buf := []byte{reg, byte((value & 0xFF00) >> 8), byte(value & 0xFF)}
WriteRegU16BE(s, reg, value, io) ==
    LET buf == <<reg, U8(Shr8(AndFF00(value))), U8(AndFF(value))>>
        w == WriteBytes(s, buf, io)
    IN [s |-> w.s, err |-> w.err]

\* w := (value*0xFF00)>>8 + value<<8, in uint16
WriteRegU16LE(s, reg, value, io) ==
    LET w == U16(Shr8(MulU16(value, 65280)) + Shl8U(value))
    IN WriteRegU16BE(s, reg, w, io)

\* buf := []byte{reg, byte((uint16(value) & 0xFF00) >> 8), byte(value & 0xFF)}
WriteRegS16BE(s, reg, value, io) ==
    LET buf == <<reg, U8(Shr8(AndFF00(U16(value)))), U8(AndFF(value))>>
        w == WriteBytes(s, buf, io)
    IN [s |-> w.s, err |-> w.err]

\* w := int16((uint16(value)*0xFF00)>>8) + value<<8, in int16
WriteRegS16LE(s, reg, value, io) ==
    LET w == S16(S16(Shr8(MulU16(U16(value), 65280))) + Shl8S(value))
    IN WriteRegS16BE(s, reg, w, io)

---------------------------------------------------------------------------
(* The state machine: one action per exported method *)

NoCall == [op |-> "NewI2C", reg |-> 0, arg |-> 0, abuf |-> <<>>, delay |-> 0,
           calls |-> <<>>, val |-> 0, buf |-> <<>>, cnt |-> 0, err |-> "nil"]

\* a caller that is in no method
Idle == [pc |-> "idle", op |-> "none", reg |-> 0, val |-> 0, err |-> "nil"]

\* One caller at a time uses the channel, without a lock.
Serial ==
    /\ caller = [p \in Callers |-> Idle]
    /\ lock = 0
    /\ mode = "none"

\* NewI2C returned a channel: the file is open and bound to addr on bus.
Init ==
    /\ bus \in Buses
    /\ addr \in Addrs
    /\ rc = "open"
    /\ mem = [a \in Regs |-> <<0, 0>>]
    /\ ptr = 0
    /\ last = NoCall
    /\ Serial
    /\ orphans = 0

\* The method returns: the transport is left as the method's calls left it.
Return(s, rec) ==
    /\ rc' = s.rc
    /\ mem' = s.mem
    /\ ptr' = s.ptr
    /\ last' = [rec EXCEPT !.calls = s.calls]
    /\ UNCHANGED <<bus, addr, caller, lock, mode, orphans>>

\* Mutant: GetBus answers with the device address.
DoGetBus_ReturnsAddr ==
    Return(World, [NoCall EXCEPT !.op = "GetBus", !.val = addr])

DoGetBus ==
    Return(World, [NoCall EXCEPT !.op = "GetBus", !.val = bus])

DoGetAddr ==
    Return(World, [NoCall EXCEPT !.op = "GetAddr", !.val = addr])

DoClose(cok) ==
    LET r == Close(World, cok)
    IN Return(r.s, [NoCall EXCEPT !.op = "Close", !.err = r.err])

DoWriteBytes(buf, io) ==
    LET r == WriteBytes(World, buf, io)
    IN Return(r.s, [NoCall EXCEPT !.op = "WriteBytes", !.abuf = buf,
                                  !.cnt = r.n, !.err = r.err])

DoReadBytes(n, io) ==
    LET r == ReadBytes(World, n, io)
    IN Return(r.s, [NoCall EXCEPT !.op = "ReadBytes", !.arg = n, !.buf = r.buf,
                                  !.cnt = r.n, !.err = r.err])

DoReadRegBytes(reg, n, io) ==
    LET r == ReadRegBytes(World, reg, n, io)
    IN Return(r.s, [NoCall EXCEPT !.op = "ReadRegBytes", !.reg = reg, !.arg = n,
                                  !.delay = DefaultReadDelay,
                                  !.buf = r.buf, !.cnt = r.n, !.err = r.err])

DoReadRegBytesWithDelay(reg, n, delay, io) ==
    LET r == ReadRegBytesWithDelay(World, reg, n, delay, io)
    IN Return(r.s, [NoCall EXCEPT !.op = "ReadRegBytesWithDelay", !.reg = reg,
                                  !.arg = n, !.delay = delay,
                                  !.buf = r.buf, !.cnt = r.n, !.err = r.err])

\* A method (reg, io) -> (value, error) returns.
ReturnWord(op, reg, delay, r) ==
    Return(r.s, [NoCall EXCEPT !.op = op, !.reg = reg, !.delay = delay,
                               !.val = r.val, !.err = r.err])

DoReadRegU8(reg, io) ==
    ReturnWord("ReadRegU8", reg, DefaultReadDelay, ReadRegU8(World, reg, io))

DoReadRegU8WithDelay(reg, delay, io) ==
    ReturnWord("ReadRegU8WithDelay", reg, delay, ReadRegU8WithDelay(World, reg, delay, io))

DoReadRegU16BE(reg, io) ==
    ReturnWord("ReadRegU16BE", reg, DefaultReadDelay, ReadRegU16BE(World, reg, io))

DoReadRegU16BEWithDelay(reg, delay, io) ==
    ReturnWord("ReadRegU16BEWithDelay", reg, delay,
               ReadRegU16BEWithDelay(World, reg, delay, io))

DoReadRegU16LE(reg, io) ==
    ReturnWord("ReadRegU16LE", reg, DefaultReadDelay, ReadRegU16LE(World, reg, io))

DoReadRegU16LEWithDelay(reg, delay, io) ==
    ReturnWord("ReadRegU16LEWithDelay", reg, delay,
               ReadRegU16LEWithDelay(World, reg, delay, io))

DoReadRegS16BE(reg, io) ==
    ReturnWord("ReadRegS16BE", reg, DefaultReadDelay, ReadRegS16BE(World, reg, io))

DoReadRegS16BEWithDelay(reg, delay, io) ==
    ReturnWord("ReadRegS16BEWithDelay", reg, delay,
               ReadRegS16BEWithDelay(World, reg, delay, io))

DoReadRegS16LE(reg, io) ==
    ReturnWord("ReadRegS16LE", reg, DefaultReadDelay, ReadRegS16LE(World, reg, io))

DoReadRegS16LEWithDelay(reg, delay, io) ==
    ReturnWord("ReadRegS16LEWithDelay", reg, delay,
               ReadRegS16LEWithDelay(World, reg, delay, io))

\* A method (reg, value, io) -> error returns.
ReturnWrite(op, reg, value, r) ==
    Return(r.s, [NoCall EXCEPT !.op = op, !.reg = reg, !.arg = value, !.err = r.err])

DoWriteRegU8(reg, value, io) ==
    ReturnWrite("WriteRegU8", reg, value, WriteRegU8(World, reg, value, io))

DoWriteRegU16BE(reg, value, io) ==
    ReturnWrite("WriteRegU16BE", reg, value, WriteRegU16BE(World, reg, value, io))

DoWriteRegU16LE(reg, value, io) ==
    ReturnWrite("WriteRegU16LE", reg, value, WriteRegU16LE(World, reg, value, io))

DoWriteRegS16BE(reg, value, io) ==
    ReturnWrite("WriteRegS16BE", reg, value, WriteRegS16BE(World, reg, value, io))

DoWriteRegS16LE(reg, value, io) ==
    ReturnWrite("WriteRegS16LE", reg, value, WriteRegS16LE(World, reg, value, io))

---------------------------------------------------------------------------
(* Spec: any caller, any sequence of methods, any transport outcome *)

\* frames a caller hands to WriteBytes: nothing, a register select, a register
\* with one or two data bytes
SomeFrames ==
    {<<>>} \cup { <<r>> : r \in Regs }
           \cup { <<r, b>> : r \in Regs, b \in SomeBytes }
           \cup { <<r, Shr8(w), AndFF(w)>> : r \in Regs, w \in SomeWords }

CallGetBus == DoGetBus
CallGetAddr == DoGetAddr
CallClose == \E cok \in BOOLEAN : DoClose(cok)
CallWriteBytes == \E buf \in SomeFrames, io \in WriteOutcomes : DoWriteBytes(buf, io)
CallReadBytes == \E n \in 0..MaxLen : \E io \in ReadOutcomes(n) : DoReadBytes(n, io)
CallReadRegBytes ==
    \E reg \in Regs, n \in 0..MaxLen : \E io \in RegReadOutcomes(n) : DoReadRegBytes(reg, n, io)
CallReadRegBytesWithDelay ==
    \E reg \in Regs, n \in 0..MaxLen, d \in Delays :
        \E io \in RegReadOutcomes(n) : DoReadRegBytesWithDelay(reg, n, d, io)
CallReadRegU8 == \E reg \in Regs, io \in RegReadOutcomes(1) : DoReadRegU8(reg, io)
CallReadRegU8WithDelay ==
    \E reg \in Regs, d \in Delays, io \in RegReadOutcomes(1) : DoReadRegU8WithDelay(reg, d, io)
CallReadRegU16BE == \E reg \in Regs, io \in RegReadOutcomes(2) : DoReadRegU16BE(reg, io)
CallReadRegU16BEWithDelay ==
    \E reg \in Regs, d \in Delays, io \in RegReadOutcomes(2) : DoReadRegU16BEWithDelay(reg, d, io)
CallReadRegU16LE == \E reg \in Regs, io \in RegReadOutcomes(2) : DoReadRegU16LE(reg, io)
CallReadRegU16LEWithDelay ==
    \E reg \in Regs, d \in Delays, io \in RegReadOutcomes(2) : DoReadRegU16LEWithDelay(reg, d, io)
CallReadRegS16BE == \E reg \in Regs, io \in RegReadOutcomes(2) : DoReadRegS16BE(reg, io)
CallReadRegS16BEWithDelay ==
    \E reg \in Regs, d \in Delays, io \in RegReadOutcomes(2) : DoReadRegS16BEWithDelay(reg, d, io)
CallReadRegS16LE == \E reg \in Regs, io \in RegReadOutcomes(2) : DoReadRegS16LE(reg, io)
CallReadRegS16LEWithDelay ==
    \E reg \in Regs, d \in Delays, io \in RegReadOutcomes(2) : DoReadRegS16LEWithDelay(reg, d, io)
CallWriteRegU8 ==
    \E reg \in Regs, b \in SomeBytes, io \in WriteOutcomes : DoWriteRegU8(reg, b, io)
CallWriteRegU16BE ==
    \E reg \in Regs, w \in SomeWords, io \in WriteOutcomes : DoWriteRegU16BE(reg, w, io)
CallWriteRegU16LE ==
    \E reg \in Regs, w \in SomeWords, io \in WriteOutcomes : DoWriteRegU16LE(reg, w, io)
CallWriteRegS16BE ==
    \E reg \in Regs, w \in SomeInts, io \in WriteOutcomes : DoWriteRegS16BE(reg, w, io)
CallWriteRegS16LE ==
    \E reg \in Regs, w \in SomeInts, io \in WriteOutcomes : DoWriteRegS16LE(reg, w, io)

Next ==
    \/ CallGetBus
    \/ CallGetAddr
    \/ CallClose
    \/ CallWriteBytes
    \/ CallReadBytes
    \/ CallReadRegBytes
    \/ CallReadRegBytesWithDelay
    \/ CallReadRegU8
    \/ CallReadRegU8WithDelay
    \/ CallWriteRegU8
    \/ CallReadRegU16BE
    \/ CallReadRegU16BEWithDelay
    \/ CallReadRegU16LE
    \/ CallReadRegU16LEWithDelay
    \/ CallReadRegS16BE
    \/ CallReadRegS16BEWithDelay
    \/ CallReadRegS16LE
    \/ CallReadRegS16LEWithDelay
    \/ CallWriteRegU16BE
    \/ CallWriteRegU16LE
    \/ CallWriteRegS16BE
    \/ CallWriteRegS16LE

Spec == Init /\ [][Next]_vars

---------------------------------------------------------------------------
(* SpecWord: the width and byte-order conversions, over every value.  A    *)
(* caller on a fresh channel writes once (raw wire bytes, or a value       *)
(* through one of the typed writers) and then reads the same register      *)
(* once; the transport fails nowhere and delivers every byte asked for.    *)

InitWord == Init /\ bus = 0

Fresh == last.op = "NewI2C"

\* the register the caller has just written
Written == IF last.op = "WriteBytes" THEN last.abuf[1] ELSE last.reg

\* the caller has just put two raw bytes on the wire
Loaded == last.op = "WriteBytes" /\ last.err = "nil"

WordLoad ==
    /\ Fresh
    /\ \E reg \in Regs, b0 \in Byte, b1 \in Byte :
           DoWriteBytes(<<reg, b0, b1>>, OkOutcome(0))

WordWriteRegU8 ==
    /\ Fresh
    /\ \E reg \in Regs, b \in Byte : DoWriteRegU8(reg, b, OkOutcome(0))

WordWriteRegU16BE ==
    /\ Fresh
    /\ \E reg \in Regs, w \in Word : DoWriteRegU16BE(reg, w, OkOutcome(0))

WordWriteRegU16LE ==
    /\ Fresh
    /\ \E reg \in Regs, w \in Word : DoWriteRegU16LE(reg, w, OkOutcome(0))

WordWriteRegS16BE ==
    /\ Fresh
    /\ \E reg \in Regs, w \in Int16 : DoWriteRegS16BE(reg, w, OkOutcome(0))

WordWriteRegS16LE ==
    /\ Fresh
    /\ \E reg \in Regs, w \in Int16 : DoWriteRegS16LE(reg, w, OkOutcome(0))

WordReadRegU8 ==
    /\ Loaded \/ last.op = "WriteRegU8"
    /\ DoReadRegU8(Written, OkOutcome(1))

WordReadRegU16BE ==
    /\ Loaded \/ last.op = "WriteRegU16BE"
    /\ DoReadRegU16BE(Written, OkOutcome(2))

WordReadRegU16LE ==
    /\ Loaded \/ last.op = "WriteRegU16LE"
    /\ DoReadRegU16LE(Written, OkOutcome(2))

WordReadRegS16BE ==
    /\ last.op = "WriteRegS16BE"
    /\ DoReadRegS16BE(Written, OkOutcome(2))

WordReadRegS16LE ==
    /\ Loaded \/ last.op = "WriteRegS16LE"
    /\ DoReadRegS16LE(Written, OkOutcome(2))

NextWord ==
    \/ WordLoad
    \/ WordWriteRegU8
    \/ WordWriteRegU16BE
    \/ WordWriteRegU16LE
    \/ WordWriteRegS16BE
    \/ WordWriteRegS16LE
    \/ WordReadRegU8
    \/ WordReadRegU16BE
    \/ WordReadRegU16LE
    \/ WordReadRegS16BE
    \/ WordReadRegS16LE

SpecWord == InitWord /\ [][NextWord]_vars

---------------------------------------------------------------------------
(* What the claims speak of *)

WordWrites == {"WriteRegU16BE", "WriteRegU16LE", "WriteRegS16BE", "WriteRegS16LE"}
RegWrites == {"WriteRegU8"} \cup WordWrites

ByteReads == {"ReadRegU8", "ReadRegU8WithDelay"}
U16BEReads == {"ReadRegU16BE", "ReadRegU16BEWithDelay"}
U16LEReads == {"ReadRegU16LE", "ReadRegU16LEWithDelay"}
S16BEReads == {"ReadRegS16BE", "ReadRegS16BEWithDelay"}
S16LEReads == {"ReadRegS16LE", "ReadRegS16LEWithDelay"}
WordReads == U16BEReads \cup U16LEReads \cup S16BEReads \cup S16LEReads
BytesReads == {"ReadRegBytes", "ReadRegBytesWithDelay"}
RegReads == ByteReads \cup WordReads \cup BytesReads

\* the frame the last method handed to the transport in its first call
Frame(c) == c.calls[1].data

\* the last method's transport calls of one kind
CallsOf(c, kind) == { i \in 1..Len(c.calls) : c.calls[i].kind = kind }

\* the last method read the transport once, without error, and the transport
\* delivered all n bytes it was asked for
Got(c, n) ==
    /\ c.err = "nil"
    /\ Len(c.calls) = 3
    /\ c.calls[3].kind = "read"
    /\ c.calls[3].err = "nil"
    /\ Len(c.calls[3].data) = n

\* the bytes the transport delivered to the last method, in wire order
Wire(c) == c.calls[3].data

\* the two bytes of a 16-bit value (two's complement for a negative one)
HighByte(v) == (v % 65536) \div 256
LowByte(v) == v % 256

\* the signed 16-bit value with the given high and low byte
Signed(hi, lo) == IF hi >= 128 THEN 256 * hi + lo - 65536 ELSE 256 * hi + lo

---------------------------------------------------------------------------
(* C1: WriteRegU16LE(reg, v) followed by ReadRegU16LE(reg), against a      *)
(* device that stores the frame's data bytes under its register byte and   *)
(* returns them on the read that follows the select, returns v without     *)
(* error, for every register and every unsigned 16-bit v.                  *)
C1_RoundTripU16LE ==
    [][ ( /\ last.op = "WriteRegU16LE" /\ last.err = "nil"
          /\ last'.op = "ReadRegU16LE" /\ last'.reg = last.reg )
        => ( last'.err = "nil" /\ last'.val = last.arg ) ]_vars

(* C2: WriteRegU16LE(reg, v) hands the transport the frame                 *)
(* [reg, v mod 256, v div 256], for every register and every unsigned      *)
(* 16-bit v.                                                               *)
C2_FrameU16LE ==
    last.op = "WriteRegU16LE"
        => Frame(last) = <<last.reg, last.arg % 256, last.arg \div 256>>

(* C3: WriteRegS16LE(reg, v) hands the transport the frame                 *)
(* [reg, low byte of v, high byte of v], the bytes of v's 16-bit two's     *)
(* complement encoding, for every register and every signed 16-bit v.      *)
C3_FrameS16LE ==
    last.op = "WriteRegS16LE"
        => Frame(last) = <<last.reg, LowByte(last.arg), HighByte(last.arg)>>

(* C4: for every pair of wire bytes [b0, b1] the transport delivers,       *)
(* ReadRegS16LE returns the signed 16-bit value whose high byte is b1 and  *)
(* whose low byte is b0, also when b0 >= 0x80.                             *)
C4_ReadS16LE ==
    (last.op \in S16LEReads /\ Got(last, 2))
        => last.val = Signed(Wire(last)[2], Wire(last)[1])

(* C5: for every pair of wire bytes [b0, b1] delivered after the register  *)
(* select, ReadRegU16BE returns 256*b0 + b1 and ReadRegU16LE returns       *)
(* 256*b1 + b0 ([0x01,0xF4] gives 500 and 62465); ReadRegU8 returns the    *)
(* single delivered byte unchanged.                                        *)
C5_ReadUnsigned ==
    /\ (last.op \in U16BEReads /\ Got(last, 2))
          => /\ last.val = 256 * Wire(last)[1] + Wire(last)[2]
             /\ Wire(last) = <<1, 244>> => last.val = 500
    /\ (last.op \in U16LEReads /\ Got(last, 2))
          => /\ last.val = 256 * Wire(last)[2] + Wire(last)[1]
             /\ Wire(last) = <<1, 244>> => last.val = 62465
    /\ (last.op \in ByteReads /\ Got(last, 1))
          => last.val = Wire(last)[1]

\* C5's case: the register holds [0x01, 0xF4] and the little-endian read
\* returned 62465.
C5_Witness ==
    /\ last.op = "ReadRegU16LE"
    /\ Got(last, 2)
    /\ Frame(last) = <<last.reg>>
    /\ mem[last.reg] = <<1, 244>>
    /\ Wire(last) = <<1, 244>>
    /\ last.val = 62465

(* C6: WriteRegS16BE(reg, v) puts v's two's-complement bytes on the wire   *)
(* high byte first (-1 gives [0xFF, 0xFF]), and ReadRegS16BE of those two  *)
(* wire bytes returns v as a signed value (-1, not 65535), for every       *)
(* signed 16-bit v.                                                        *)
C6_RoundTripS16BE ==
    [][ /\ last'.op = "WriteRegS16BE"
            => /\ Frame(last') = <<last'.reg, HighByte(last'.arg), LowByte(last'.arg)>>
               /\ last'.arg = -1 => Frame(last') = <<last'.reg, 255, 255>>
        /\ ( /\ last.op = "WriteRegS16BE" /\ last.err = "nil"
             /\ last'.op = "ReadRegS16BE" /\ last'.reg = last.reg )
            => /\ Got(last', 2)
               /\ Wire(last') = Tail(Frame(last))
               /\ last'.val = last.arg ]_vars

\* C6's case: the register was written with -1, holds [0xFF, 0xFF], and the
\* signed big-endian read returned -1.
C6_Witness ==
    /\ last.op = "ReadRegS16BE"
    /\ Got(last, 2)
    /\ Wire(last) = <<255, 255>>
    /\ last.val = -1

---------------------------------------------------------------------------
\* the number of bytes a register read asks the transport for
Wanted(c) ==
    IF c.op \in ByteReads THEN 1
    ELSE IF c.op \in WordReads THEN 2
    ELSE c.arg

(* C7: in every register read, if the register-select write fails, the     *)
(* method returns that write's error and never reads the transport.        *)
C7_NoReadAfterFailedSelect ==
    ( /\ last.op \in RegReads
      /\ Len(last.calls) >= 1
      /\ last.calls[1].kind = "write"
      /\ last.calls[1].err # "nil" )
        => /\ last.err = last.calls[1].err
           /\ CallsOf(last, "read") = {}

\* C7's case: the select write of a byte read failed and the method returned
\* the write's error.
C7_Witness ==
    /\ last.op = "ReadRegU8"
    /\ rc = "open"
    /\ Len(last.calls) = 1
    /\ last.calls[1] = [kind |-> "write", data |-> <<last.reg>>, n |-> 1, err |-> "WriteErr"]
    /\ last.err = "WriteErr"

Accessors == {"GetBus", "GetAddr"}

(* C8, as the spec states it: once Close has been called, every later      *)
(* method returns an error (ChannelClosed) and makes no call on the        *)
(* transport, and the channel stays closed.                                *)
C8_ClosedRejectsWithoutTransport ==
    [][ rc = "closed"
          => (rc' = "closed" /\ last'.err # "nil" /\ last'.calls = <<>>) ]_vars

(* C8, amended: the transport is open from construction until Close and    *)
(* closed for ever after.  Once Close has been called, GetBus and GetAddr  *)
(* still answer without error, and every other method hands its first call *)
(* to the closed transport, which rejects it: the method returns the       *)
(* transport's closed-file error after that one call and the device sees   *)
(* nothing.                                                                *)
C8_ClosedForGood ==
    [][ /\ (rc = "open" /\ rc' = "closed") => last'.op = "Close"
        /\ last'.op = "Close" => rc' = "closed"
        /\ rc = "closed"
             => /\ rc' = "closed" /\ mem' = mem /\ ptr' = ptr
                /\ last'.op \in Accessors
                     => /\ last'.err = "nil"
                        /\ last'.calls = <<>>
                        /\ last'.val = IF last'.op = "GetBus" THEN bus ELSE addr
                /\ last'.op \notin Accessors
                     => /\ last'.err = "ErrClosed"
                        /\ Len(last'.calls) = 1
                        /\ last'.calls[1].err = "ErrClosed" ]_vars

\* C8's case: a word read on a closed channel was rejected by the transport.
C8_Witness ==
    /\ rc = "closed"
    /\ last.op = "ReadRegU16BE"
    /\ last.err = "ErrClosed"
    /\ Len(last.calls) = 1

(* C9: every register read makes its transport calls in one fixed order:   *)
(* one write of the single byte [reg]; then, unless that write failed, the *)
(* settle delay and one read asking for 1 byte (byte read), 2 bytes (word  *)
(* read) or n bytes (ReadRegBytes); the little-endian reads make no call   *)
(* beyond these.                                                           *)
C9_ReadProtocol ==
    last.op \in RegReads
        => /\ Len(last.calls) >= 1
           /\ last.calls[1].kind = "write"
           /\ last.calls[1].data = <<last.reg>>
           /\ last.calls[1].err # "nil" => Len(last.calls) = 1
           /\ last.calls[1].err = "nil"
                => /\ Len(last.calls) = 3
                   /\ last.calls[2] = [kind |-> "sleep", data |-> <<>>,
                                       n |-> last.delay, err |-> "nil"]
                   /\ last.calls[3].kind = "read"
                   /\ last.calls[3].n = Wanted(last)

\* C9's case: a little-endian word read with a settle delay of 1 went
\* through select, sleep and one two-byte read.
C9_Witness ==
    /\ last.op = "ReadRegU16LEWithDelay"
    /\ last.delay = 1
    /\ last.err = "nil"
    /\ Len(last.calls) = 3
    /\ last.calls[3].kind = "read"
    /\ last.calls[3].n = 2

(* C10: every register write makes exactly one transport write and no      *)
(* read: one frame whose first byte is the register, followed by 1 data    *)
(* byte (8-bit) or 2 data bytes (16-bit).                                  *)
C10_WriteProtocol ==
    last.op \in RegWrites
        => /\ Len(last.calls) = 1
           /\ last.calls[1].kind = "write"
           /\ Len(Frame(last)) = (IF last.op = "WriteRegU8" THEN 2 ELSE 3)
           /\ last.calls[1].n = Len(Frame(last))
           /\ Frame(last)[1] = last.reg

\* C10's case: a 16-bit little-endian write went out as one three-byte frame.
C10_Witness ==
    /\ last.op = "WriteRegS16LE"
    /\ last.err = "nil"
    /\ Len(last.calls) = 1
    /\ Len(Frame(last)) = 3
    /\ Frame(last)[1] = last.reg
    /\ mem[last.reg] = Tail(Frame(last))

---------------------------------------------------------------------------
(* Several callers share one channel.  A register read is two transport    *)
(* calls, WriteBytes and then ReadBytes, with the sleep between them; the  *)
(* struct I2C holds no mutex, so each transport call is a step of its own  *)
(* and the steps of different callers interleave.  A caller's discipline   *)
(* (mode) is its own: "none" is the code as it stands, "call" takes the    *)
(* lock around every single transport call, "op" takes it around the whole *)
(* register read.                                                          *)

Modes == {"none", "call", "op"}

ConcOps == {"ReadRegU8", "ReadRegU16BE"}

\* what the device's registers hold while the callers read them
ConcMem == [a \in Regs |-> IF a = 0 THEN <<200, 0>> ELSE <<1, 244>>]

\* the transport's outcomes of one call in the concurrent specification
ConcWriteOutcomes == WriteOutcomes
ConcReadOutcomes(n) == {OkOutcome(n), Outcome(TRUE, TRUE, 0)}

InitConc ==
    /\ bus = 0
    /\ addr \in Addrs
    /\ rc = "open"
    /\ mem = ConcMem
    /\ ptr = 0
    /\ last = NoCall
    /\ caller = [p \in Callers |-> Idle]
    /\ lock = 0
    /\ mode \in Modes
    /\ orphans = 0

\* the caller may make a transport call now
MayStep(p) == mode = "none" \/ lock = p

\* the lock after a transport call of its holder; returned tells whether the
\* method returns after this call
Release(returned) ==
    IF mode = "call" \/ (mode = "op" /\ returned) THEN 0 ELSE lock

\* the caller takes the lock: before the method under "op", before each
\* transport call under "call"
ConcLock(p) ==
    /\ mode # "none"
    /\ lock = 0
    /\ caller[p].pc \in (IF mode = "op" THEN {"select"} ELSE {"select", "read"})
    /\ lock' = p
    /\ UNCHANGED <<bus, addr, rc, mem, ptr, last, caller, mode, orphans>>

\* a caller enters ReadRegU8(reg) or ReadRegU16BE(reg)
ConcCall(p, op, reg) ==
    /\ caller[p].pc \in {"idle", "done"}
    /\ caller' = [caller EXCEPT ![p] = [pc |-> "select", op |-> op, reg |-> reg,
                                        val |-> 0, err |-> "nil"]]
    /\ UNCHANGED <<bus, addr, rc, mem, ptr, last, lock, mode, orphans>>

\* Mutant: a caller's select waits until no other caller is between its
\* select and its read.
ConcSelect_Exclusive(p, io) ==
    /\ caller[p].pc = "select"
    /\ MayStep(p)
    /\ \A q \in Callers \ {p} : caller[q].pc # "read"
    /\ LET w == WriteBytes(World, <<caller[p].reg>>, io)
       IN /\ mem' = w.s.mem
          /\ ptr' = w.s.ptr
          /\ caller' = [caller EXCEPT ![p].pc = IF w.err # "nil" THEN "done" ELSE "read",
                                      ![p].err = w.err]
          /\ lock' = Release(w.err # "nil")
    /\ UNCHANGED <<bus, addr, rc, last, mode, orphans>>

\* Mutant: the select step does not write the register address.
ConcSelect_NoSelect(p, io) ==
    /\ caller[p].pc = "select"
    /\ MayStep(p)
    /\ LET w == WriteBytes(World, <<>>, io)
       IN /\ mem' = w.s.mem
          /\ ptr' = w.s.ptr
          /\ caller' = [caller EXCEPT ![p].pc = IF w.err # "nil" THEN "done" ELSE "read",
                                      ![p].err = w.err]
          /\ lock' = Release(w.err # "nil")
    /\ UNCHANGED <<bus, addr, rc, last, mode, orphans>>

\* _, err := v.WriteBytes([]byte{reg}); if err != nil { return 0, err }
ConcSelect(p, io) ==
    /\ caller[p].pc = "select"
    /\ MayStep(p)
    /\ LET w == WriteBytes(World, <<caller[p].reg>>, io)
       IN /\ mem' = w.s.mem
          /\ ptr' = w.s.ptr
          /\ caller' = [caller EXCEPT ![p].pc = IF w.err # "nil" THEN "done" ELSE "read",
                                      ![p].err = w.err]
          /\ lock' = Release(w.err # "nil")
    /\ UNCHANGED <<bus, addr, rc, last, mode, orphans>>

\* the length of the buffer the method reads into
ConcLen(op) == IF op = "ReadRegU8" THEN 1 ELSE 2

\* _, err = v.ReadBytes(buf); if err != nil { return 0, err }
\* return buf[0], nil                           (ReadRegU8WithDelay)
\* w := uint16(buf[0])<<8 + uint16(buf[1])      (ReadRegU16BEWithDelay)
ConcRead(p, io) ==
    /\ caller[p].pc = "read"
    /\ MayStep(p)
    /\ LET r == ReadBytes(World, ConcLen(caller[p].op), io)
           v == IF r.err # "nil" THEN 0
                ELSE IF caller[p].op = "ReadRegU8" THEN r.buf[1]
                ELSE U16(Shl8U(U16(r.buf[1])) + U16(r.buf[2]))
       IN /\ mem' = r.s.mem
          /\ ptr' = r.s.ptr
          /\ caller' = [caller EXCEPT ![p].pc = "done", ![p].val = v, ![p].err = r.err]
          /\ lock' = Release(TRUE)
    /\ UNCHANGED <<bus, addr, rc, last, mode, orphans>>

NextConc ==
    \/ \E p \in Callers, op \in ConcOps, reg \in Regs : ConcCall(p, op, reg)
    \/ \E p \in Callers : ConcLock(p)
    \/ \E p \in Callers, io \in ConcWriteOutcomes : ConcSelect(p, io)
    \/ \E p \in Callers :
          \E io \in ConcReadOutcomes(ConcLen(caller[p].op)) : ConcRead(p, io)

SpecConc == InitConc /\ [][NextConc]_vars

---------------------------------------------------------------------------
(* Construction.  NewI2C opens the device file of the bus and then binds   *)
(* it to the device address with ioctl(I2C_SLAVE); either step can fail.   *)
(* rc = "none" says that the caller has no channel.  The caller constructs *)
(* a channel when it has none or has closed the one it had.                *)

\* no channel has been constructed
InitNew ==
    /\ bus = 0
    /\ addr = 0
    /\ rc = "none"
    /\ mem = [a \in Regs |-> <<0, 0>>]
    /\ ptr = 0
    /\ last = [NoCall EXCEPT !.op = "none"]
    /\ Serial
    /\ orphans = 0

\* f, err := os.OpenFile(...);            if err != nil { return nil, err }
\* err := ioctl(f.Fd(), I2C_SLAVE, addr); if err != nil { return nil, err }
\* return &I2C{rc: f, bus: bus, addr: addr}, nil
\* The second return leaves f open: nothing closes it and no channel holds it.
NewI2C(a, b, openOk, ioctlOk) ==
    /\ rc \in {"none", "closed"}
    /\ orphans < MaxOrphans
    /\ IF ~openOk
          THEN /\ last' = [NoCall EXCEPT !.abuf = <<a, b>>, !.err = "OpenErr"]
               /\ UNCHANGED <<bus, addr, rc, orphans>>
       ELSE IF ~ioctlOk
          THEN /\ last' = [NoCall EXCEPT !.abuf = <<a, b>>, !.err = "IoctlErr"]
               /\ orphans' = orphans + 1
               /\ UNCHANGED <<bus, addr, rc>>
       ELSE /\ last' = [NoCall EXCEPT !.abuf = <<a, b>>]
            /\ bus' = b
            /\ addr' = a
            /\ rc' = "open"
            /\ UNCHANGED orphans
    /\ UNCHANGED <<mem, ptr, caller, lock, mode>>

CallNewI2C ==
    \E a \in Addrs, b \in Buses, openOk \in BOOLEAN, ioctlOk \in BOOLEAN :
       NewI2C(a, b, openOk, ioctlOk)

\* the methods called on the channel NewI2C returned
NextNew ==
    \/ CallNewI2C
    \/ rc # "none" /\ CallGetBus
    \/ rc # "none" /\ CallGetAddr
    \/ rc # "none" /\ CallClose
    \/ rc # "none" /\ CallWriteRegU8
    \/ rc # "none" /\ CallReadRegU8

SpecNew == InitNew /\ [][NextNew]_vars

---------------------------------------------------------------------------
\* the last method's transport calls of one kind that the transport refused
FailedCalls(c, kind) == { i \in CallsOf(c, kind) : c.calls[i].err # "nil" }

(* C11: no retry and no rollback.  When the transport read of a register   *)
(* read fails, the method returns that error having made exactly one       *)
(* transport write and exactly one transport read, and the register it     *)
(* selected stays selected; when the transport write of a register write   *)
(* fails, the method returns that error after exactly one transport write. *)
C11_NoRetryNoRollback ==
    /\ (last.op \in RegReads /\ FailedCalls(last, "read") # {})
          => /\ Cardinality(CallsOf(last, "write")) = 1
             /\ Cardinality(CallsOf(last, "read")) = 1
             /\ Len(last.calls) = 3
             /\ last.err = last.calls[3].err
             /\ rc = "open" => ptr = last.reg
    /\ (last.op \in RegWrites /\ FailedCalls(last, "write") # {})
          => /\ Len(last.calls) = 1
             /\ last.err = last.calls[1].err

\* C11's case: the read of a word read failed on an open channel after the
\* register was selected; the method made one write and one read and
\* returned the read's error.
C11_Witness ==
    /\ last.op = "ReadRegU16BE"
    /\ rc = "open"
    /\ last.err = "ReadErr"
    /\ Len(last.calls) = 3
    /\ last.calls[1].err = "nil"
    /\ last.calls[3] = [kind |-> "read", data |-> <<mem[last.reg][1]>>, n |-> 2,
                        err |-> "ReadErr"]
    /\ ptr = last.reg

---------------------------------------------------------------------------
\* what a register read of kind op makes of a register holding bytes b
RegValue(op, b) == IF op = "ReadRegU8" THEN b[1] ELSE b[1] * 256 + b[2]

\* caller p has a register selected and has not read it yet
Between(p) == caller[p].pc = "read"

\* caller p's read returned without error
Finished(p) == caller[p].pc = "done" /\ caller[p].err = "nil"

(* C12: without synchronization, when one caller is between its register   *)
(* select and its read, nothing keeps another caller from selecting its    *)
(* own register then; and a read returns the contents of the register the  *)
(* device has selected at that moment, whichever caller selected it, so a  *)
(* read can return the other caller's register.                            *)
C12_SelectFallsBetween ==
    [][mode = "none" =>
         \A p \in Callers :
            /\ \A q \in Callers \ {p} :
                  (Between(p) /\ caller[q].pc = "select")
                     => ENABLED ConcSelect(q, OkOutcome(0))
            /\ (Between(p) /\ caller'[p].pc = "done" /\ caller'[p].err = "nil")
                  => caller'[p].val = RegValue(caller[p].op, mem[ptr])]_vars

\* C12's case: caller 1 read register 0 and caller 2 selected register 16
\* between caller 1's select and read, so caller 1 was handed the first byte
\* of register 16.
C12_Witness ==
    /\ mode = "none"
    /\ Finished(1)
    /\ caller[1].op = "ReadRegU8"
    /\ caller[1].reg = 0
    /\ caller[1].val = ConcMem[16][1]
    /\ caller[1].val # ConcMem[0][1]
    /\ caller[2].pc = "read"
    /\ caller[2].reg = 16

(* C15: when every caller holds the lock for its whole register read       *)
(* (select, sleep and read), every read returns the bytes of the register  *)
(* that same read selected, and a caller between its select and its read   *)
(* holds the lock with its own register still selected.  When the lock is  *)
(* held only around each transport call, it is free again after the        *)
(* select, another caller can take it and select its own register before   *)
(* the first caller reads, so the guarantee is lost.                       *)
C15_LockWholeOperation ==
    [][/\ mode = "op" =>
            \A p \in Callers :
               /\ Finished(p) => caller[p].val = RegValue(caller[p].op, mem[caller[p].reg])
               /\ Between(p) => (lock = p /\ ptr = caller[p].reg)
       /\ mode = "call" =>
            \A p \in Callers :
               /\ (caller[p].pc = "select" /\ caller'[p].pc = "read") => lock' = 0
               /\ \A q \in Callers \ {p} :
                     /\ (Between(p) /\ lock = 0 /\ caller[q].pc = "select")
                           => ENABLED ConcLock(q)
                     /\ (Between(p) /\ lock = q /\ caller[q].pc = "select")
                           => ENABLED ConcSelect(q, OkOutcome(0))]_vars

\* C15's case: under the whole-operation lock caller 1 read register 0 and
\* got its byte, and caller 2 is inside its read of register 16, holding the
\* lock.
C15_Witness ==
    /\ mode = "op"
    /\ Finished(1)
    /\ caller[1].op = "ReadRegU8"
    /\ caller[1].reg = 0
    /\ caller[1].val = ConcMem[0][1]
    /\ Between(2)
    /\ caller[2].reg = 16
    /\ lock = 2

\* Under the per-call lock a read of register 0 returns register 16's byte.
C15_PerCallLockMixesRegisters ==
    /\ mode = "call"
    /\ Finished(1)
    /\ caller[1].op = "ReadRegU8"
    /\ caller[1].reg = 0
    /\ caller[1].val = ConcMem[16][1]
    /\ caller[2].reg = 16

(* C13: bus and addr never change after construction.  Whatever methods    *)
(* ran before, Close included, GetBus returns the bus and GetAddr the      *)
(* address the channel was constructed with, without any transport call    *)
(* and without changing the file, the device or the fields.                *)
C13_BusAddrFixed ==
    [][/\ bus' = bus
       /\ addr' = addr
       /\ last'.op \in Accessors =>
             /\ last'.val = (IF last'.op = "GetBus" THEN bus ELSE addr)
             /\ last'.err = "nil"
             /\ last'.calls = <<>>
             /\ rc' = rc
             /\ mem' = mem
             /\ ptr' = ptr]_vars

\* C13's case: after registers were written and the channel was closed,
\* GetBus still answers with the bus of construction.
C13_Witness ==
    /\ last.op = "GetBus"
    /\ rc = "closed"
    /\ mem[16] # <<0, 0>>
    /\ bus = 1
    /\ last.val = 1
    /\ last.calls = <<>>

\* the last method call's transport read failed
ReadFailed(c) ==
    /\ c.calls # <<>>
    /\ c.calls[Len(c.calls)].kind = "read"
    /\ c.calls[Len(c.calls)].err # "nil"

\* the bytes the transport delivered in the last method call's read
Delivered(c) == c.calls[Len(c.calls)].data

(* C14 as stated: when the transport read of ReadRegBytes or               *)
(* ReadRegBytesWithDelay fails, the method returns the error together with *)
(* the number of bytes the transport delivered, as ReadBytes does.         *)
C14_CountWithError ==
    (last.op \in BytesReads \cup {"ReadBytes"} /\ ReadFailed(last))
       => /\ last.err = last.calls[Len(last.calls)].err
          /\ last.cnt = Len(Delivered(last))

(* C14, amended: only ReadBytes returns the delivered count with the       *)
(* error.  ReadRegBytes and ReadRegBytesWithDelay drop it: when their      *)
(* transport read fails they return the error with no buffer and count 0,  *)
(* however many bytes the transport delivered.                             *)
C14_CountDropped ==
    /\ (last.op = "ReadBytes" /\ ReadFailed(last))
          => /\ last.err = last.calls[1].err
             /\ last.cnt = Len(Delivered(last))
             /\ Len(last.buf) = last.arg
             /\ \A i \in 1..last.cnt : last.buf[i] = Delivered(last)[i]
    /\ (last.op \in BytesReads /\ ReadFailed(last))
          => /\ last.err = last.calls[3].err
             /\ last.cnt = 0
             /\ last.buf = <<>>

\* C14's case: ReadRegBytes asked for 2 bytes, the transport delivered 1 and
\* then failed; the method returned the error with count 0 and no buffer.
C14_Witness ==
    /\ last.op = "ReadRegBytes"
    /\ last.arg = 2
    /\ ReadFailed(last)
    /\ Len(Delivered(last)) = 1
    /\ last.err = "ReadErr"
    /\ last.cnt = 0
    /\ last.buf = <<>>

(* C16: every device file NewI2C opened is held by a channel NewI2C        *)
(* returned, or has been closed; in particular, when the open succeeds and *)
(* the ioctl is rejected, NewI2C returns the error and no channel, and     *)
(* leaves no open file behind.                                             *)
C16_NoHandleLeftBehind ==
    /\ orphans = 0
    /\ (last.op = "NewI2C" /\ last.err # "nil") => rc # "open"

(* C17: a word read (ReadRegU16BE/LE, ReadRegS16BE/LE, with or without     *)
(* delay) that returns without error has received 2 bytes from the         *)
(* transport; a transport read that reports success with fewer than 2      *)
(* bytes does not yield a successful word value.                           *)
C17_WordNeedsTwoBytes ==
    (last.op \in WordReads /\ last.err = "nil")
       => /\ Len(last.calls) = 3
          /\ last.calls[3].kind = "read"
          /\ Len(last.calls[3].data) = 2

(* C18: for every register reg, WriteRegU8(reg, b) hands the transport the *)
(* frame [reg, b], and WriteRegU16BE(reg, v) hands it                      *)
(* [reg, v div 256, v mod 256] for every unsigned 16-bit v; ReadRegU16BE   *)
(* of the register so written receives those two data bytes and returns v. *)
C18_FramesU8AndU16BE ==
    [][ /\ last'.op = "WriteRegU8"
            => /\ Len(last'.calls) = 1
               /\ Frame(last') = <<last'.reg, last'.arg>>
        /\ last'.op = "WriteRegU16BE"
            => /\ Len(last'.calls) = 1
               /\ Frame(last') = <<last'.reg, last'.arg \div 256, last'.arg % 256>>
        /\ ( /\ last.op = "WriteRegU16BE" /\ last.err = "nil"
             /\ last'.op = "ReadRegU16BE" /\ last'.reg = last.reg )
            => /\ Got(last', 2)
               /\ Wire(last') = Tail(Frame(last))
               /\ last'.val = last.arg ]_vars

\* C18's case: register 16 was written with WriteRegU16BE(16, 500), holds
\* [0x01, 0xF4], and the unsigned big-endian read returned 500.
C18_Witness ==
    /\ last.op = "ReadRegU16BE"
    /\ last.reg = 16
    /\ Got(last, 2)
    /\ Wire(last) = <<1, 244>>
    /\ mem[16] = <<1, 244>>
    /\ last.val = 500

=============================================================================
